---------------------------- MODULE Spec2Model ----------------------------
(***************************************************************************)
(* A model of backend/main.py of keiranhost: the chunked upload handlers   *)
(* (upload_chunk, complete_upload), the retrieval handler (get_file), the  *)
(* metadata snapshot (save_metadata) and the background reaper             *)
(* (cleanup_expired_files).                                                *)
(*                                                                         *)
(* Strings are tuples of one-character strings, so that pathlib's suffix,  *)
(* str.lower, str.split and the substring test `fileName in str(v)` are    *)
(* computed on characters as Python computes them.                         *)
(*                                                                         *)
(* Time is the wall clock in hours.  The handlers are `async def` bodies   *)
(* without an await, and a reaper cycle awaits only in its sleep, so each  *)
(* handler and each cycle is one atomic step of the event loop.            *)
(*                                                                         *)
(* Spec takes the file system to work: the only I/O errors it has are the  *)
(* ones the program's own state produces (a chunk file that is gone, a     *)
(* chunk index that is not tracked), and a reaper cycle is one step.       *)
(*                                                                         *)
(* SpecLoop follows the reaper task statement by statement, lets the       *)
(* unlink calls of a cycle raise, and adds the shutdown half of lifespan.  *)
(***************************************************************************)
EXTENDS Integers, Sequences, FiniteSets, TLC

VARIABLES
    chunk_tracking,  \* main.py:71  dict fileName -> dict chunkIndex -> Path, in insertion order
    file_metadata,   \* main.py:72  dict file_id -> record
    chunkDir,        \* the files of CHUNK_DIR: path -> [bytes, mtime]
    uploadDir,       \* the files of UPLOAD_DIR: path -> bytes
    snapshot,        \* the content of METADATA_FILE
    clock,           \* the wall clock, datetime.now(), in hours
    wake,            \* the time at which the reaper's asyncio.sleep ends
    sent,            \* history: the bytes last accepted for each (fileName, chunkIndex) of a tracked session
    accepted,        \* history: the number of chunks upload_chunk has stored
    issued,          \* history: the expiry time complete_upload last gave each id it returned
    last,            \* history: the last operation and its response
    pc,              \* main.py:489-513  the statement the reaper task is at
    cycle_now,       \* main.py:492  the now of the reaper's cycle
    expired_files,   \* main.py:493-498  what is left of expired_files in the for loop
    lifespan         \* main.py:40-48  the statement lifespan is at

\* the variables of the reaper task and of lifespan
loop == <<pc, cycle_now, expired_files, lifespan>>

vars == <<chunk_tracking, file_metadata, chunkDir, uploadDir, snapshot, clock, wake, sent, accepted, issued, last, pc, cycle_now, expired_files, lifespan>>

-----------------------------------------------------------------------------
(* Bounds of the model *)

\* the number of distinct identifiers random.choices can draw
NumIds == 2
\* chunk indices submitted are 0..MaxIdx
MaxIdx == 1
\* a chunk body is one byte of 1..NumBytes
NumBytes == 2
\* a run stores at most MaxChunks chunks
MaxChunks == 2
\* the wall clock is sampled every ClockStep hours
ClockStep == 13
\* the wall clock advances at most MaxTicks times
MaxTicks == 2

\* the last hour of a run
MaxClock == MaxTicks * ClockStep

-----------------------------------------------------------------------------
(* Program constants *)

\* main.py:94  length of a short id
ID_LENGTH == 6
\* main.py:190 timedelta(hours=24)
RETENTION_HOURS == 24
\* main.py:508 timedelta(hours=24)
CHUNK_MAX_AGE_HOURS == 24
\* main.py:511 asyncio.sleep(3600)
CLEANUP_INTERVAL_HOURS == 1

\* main.py:66
ALLOWED_EXTENSIONS ==
    { <<".", "p", "n", "g">>, <<".", "j", "p", "g">>, <<".", "j", "p", "e", "g">>,
      <<".", "g", "i", "f">>, <<".", "m", "p", "4">>, <<".", "w", "e", "b", "m">>,
      <<".", "p", "d", "f">> }

\* main.py:62  the prefix str(CHUNK_DIR / x) puts before x
CHUNK_DIR == <<"c", "h", "u", "n", "k", "s", "/">>

-----------------------------------------------------------------------------
(* Strings *)

\* s in t, for Python strings
IsSubstring(s, t) ==
    \E i \in 0..(Len(t) - Len(s)) : SubSeq(t, i + 1, i + Len(s)) = s

\* the 1-based positions of character c in s
Positions(c, s) == { i \in 1..Len(s) : s[i] = c }

MaxOf(S) == CHOOSE x \in S : \A y \in S : y <= x
MinOf(S) == CHOOSE x \in S : \A y \in S : x <= y

\* str.lower on the letters the model's file names use
LowerChar(c) ==
    CASE c = "A" -> "a"
      [] c = "G" -> "g"
      [] c = "N" -> "n"
      [] c = "P" -> "p"
      [] OTHER -> c

Lower(s) == [i \in 1..Len(s) |-> LowerChar(s[i])]

\* pathlib: PurePath.name, the part after the last "/"
PathName(s) ==
    IF Positions("/", s) = {} THEN s
    ELSE SubSeq(s, MaxOf(Positions("/", s)) + 1, Len(s))

\* pathlib: PurePath.suffix: i = name.rfind('.'); name[i:] if 0 < i < len(name) - 1 else ''
Suffix(s) ==
    LET name == PathName(s)
        dots == Positions(".", name)
    IN  IF dots = {} THEN <<>>
        ELSE LET p == MaxOf(dots)
             IN  IF 1 < p /\ p < Len(name) THEN SubSeq(name, p, Len(name)) ELSE <<>>

\* main.py:130, 165  Path(fileName).suffix.lower()
FileExt(fileName) == Lower(Suffix(fileName))

\* main.py:204  file_id.split('.')[0]
BaseFileId(file_id) ==
    IF Positions(".", file_id) = {} THEN file_id
    ELSE SubSeq(file_id, 1, MinOf(Positions(".", file_id)) - 1)

Digit == <<"0", "1", "2", "3", "4", "5", "6", "7", "8", "9">>

\* str(n) of a non-negative int, as the f-string of main.py:140 formats chunkIndex
RECURSIVE Decimal(_)
Decimal(n) ==
    IF n < 10 THEN <<Digit[n + 1]>>
    ELSE Decimal(n \div 10) \o <<Digit[(n % 10) + 1]>>

\* repr of a PosixPath: PosixPath('chunks/ab_0.png')
ReprPath(p) ==
    <<"P", "o", "s", "i", "x", "P", "a", "t", "h", "(", "'">> \o p \o <<"'", ")">>

\* the items of str(dict), joined by ", ", in insertion order
RECURSIVE ReprItems(_)
ReprItems(chunks) ==
    IF chunks = <<>> THEN <<>>
    ELSE LET item == Decimal(chunks[1].idx) \o <<":", " ">> \o ReprPath(chunks[1].path)
         IN  IF Len(chunks) = 1 THEN item
             ELSE item \o <<",", " ">> \o ReprItems(Tail(chunks))

\* main.py:135  str(v) of a session's dict {chunkIndex: Path}
StrDict(chunks) == <<"{">> \o ReprItems(chunks) \o <<"}">>

-----------------------------------------------------------------------------
(* Inputs *)

IdAlphabet == <<"x", "y", "z", "w">>

\* main.py:95-97  the strings ''.join(random.choices(chars, k=length)) can return
ShortIds == { [i \in 1..ID_LENGTH |-> IdAlphabet[k]] : k \in 1..NumIds }

Name0Png == <<"0", ".", "p", "n", "g">>
NameAPng == <<"a", ".", "P", "N", "G">>
NameAExe == <<"a", ".", "e", "x", "e">>

\* the file names clients submit
FileNames == {Name0Png, NameAPng, NameAExe}

ChunkIndexes == 0..MaxIdx

\* a chunk body
Bodies == { <<b>> : b \in 1..NumBytes }

\* the totalChunks a client declares
TotalChunks == 0..(MaxIdx + 1)

\* the file_id of GET /files/{file_id}: an id, or an id with an extension
FileIdInputs == ShortIds \cup { id \o <<".", "p", "n", "g">> : id \in ShortIds }

None == <<"None">>

-----------------------------------------------------------------------------
(* Dictionaries that keep insertion order *)

\* the keys of chunk_tracking
Tracked == { chunk_tracking[i].name : i \in 1..Len(chunk_tracking) }

\* chunk_tracking[fileName]
Session(fileName) ==
    LET i == CHOOSE i \in 1..Len(chunk_tracking) : chunk_tracking[i].name = fileName
    IN  chunk_tracking[i].chunks

\* the keys of a session's dict
Indexes(chunks) == { chunks[i].idx : i \in 1..Len(chunks) }

\* chunks[i]
ChunkAt(chunks, idx) ==
    LET i == CHOOSE i \in 1..Len(chunks) : chunks[i].idx = idx
    IN  chunks[i].path

\* d[idx] = path: replaces the value of a key in place, appends a new key
DictSet(chunks, idx, path) ==
    IF idx \in Indexes(chunks)
    THEN [i \in 1..Len(chunks) |->
            IF chunks[i].idx = idx THEN [idx |-> idx, path |-> path] ELSE chunks[i]]
    ELSE Append(chunks, [idx |-> idx, path |-> path])

\* a function with key k added or replaced
Put(f, k, v) == [x \in DOMAIN f \cup {k} |-> IF x = k THEN v ELSE f[x]]

\* a function without the keys of K
Drop(f, K) == [x \in DOMAIN f \ K |-> f[x]]

-----------------------------------------------------------------------------
(* Responses *)

\* the response of a handler: the status code, the detail of an HTTPException,
\* and the value returned (chunkId, fileId) when there is one
Response(op, status, detail, ret) ==
    [op |-> op, status |-> status, detail |-> detail, ret |-> ret]

-----------------------------------------------------------------------------
(* main.py:75-80  save_metadata *)

\* a date-only format: the hours of the day dropped
IsoFormatDateOnly(t) == <<"T">> \o Decimal(t - (t % 24))

\* main.py:18-22  datetime.isoformat, on a clock that counts hours: "T" and the decimal digits
IsoFormat(t) == <<"T">> \o Decimal(t)

\* main.py:78  json.dump(file_metadata, f, cls=DateTimeEncoder)
JsonDump(metadata) ==
    [id \in DOMAIN metadata |->
        [metadata[id] EXCEPT !.upload_time = IsoFormat(@), !.expiry_time = IsoFormat(@)]]

\* METADATA_FILE does not exist: shaped as a dump is, under a key no id equals
NoFile == [id \in {<<>>} |-> <<>>]

-----------------------------------------------------------------------------
(* main.py:83-91  load_metadata *)

\* int(s) of a string of decimal digits
RECURSIVE FromDecimal(_)
FromDecimal(s) ==
    LET d == CHOOSE n \in 0..9 : Digit[n + 1] = s[Len(s)]
    IN  IF Len(s) = 1 THEN d ELSE 10 * FromDecimal(SubSeq(s, 1, Len(s) - 1)) + d

\* a string datetime.fromisoformat accepts: "T" and decimal digits
IsIsoFormat(s) ==
    /\ Len(s) >= 2
    /\ s[1] = "T"
    /\ \A i \in 2..Len(s) : \E n \in 1..10 : Digit[n] = s[i]

\* main.py:34  datetime.fromisoformat(v)
FromIsoFormat(s) == FromDecimal(Tail(s))

\* main.py:31-36  the value object_hook leaves under the key upload_time or
\* expiry_time: the datetime, or v itself when fromisoformat raises ValueError
HookValue(v) == IF IsIsoFormat(v) THEN FromIsoFormat(v) ELSE v

\* main.py:30-37  DateTimeDecoder.object_hook on a record
ObjectHook(dct) ==
    [dct EXCEPT !.upload_time = HookValue(@), !.expiry_time = HookValue(@)]

\* main.py:88  json.load(f, cls=DateTimeDecoder)
JsonLoad(text) == [id \in DOMAIN text |-> ObjectHook(text[id])]

\* main.py:86-88  file_metadata after load_metadata at startup, when it is {} before
LoadMetadata(file) == IF file = NoFile THEN <<>> ELSE JsonLoad(file)

-----------------------------------------------------------------------------
(* main.py:94-99  generate_short_id *)

\* the ids the loop can return: a draw is returned unless UPLOAD_DIR / short_id exists
GenerateShortId == { short_id \in ShortIds : short_id \notin DOMAIN uploadDir }

-----------------------------------------------------------------------------
(* main.py:123-152  upload_chunk *)

\* main.py:134-135  next((k for k, v in chunk_tracking.items() if fileName in str(v)), None)
FirstMatch(fileName) ==
    LET hits == { i \in 1..Len(chunk_tracking) :
                    IsSubstring(fileName, StrDict(chunk_tracking[i].chunks)) }
    IN  IF hits = {} THEN None ELSE chunk_tracking[MinOf(hits)].name

\* main.py:134  the values file_id can take
ChunkFileIds(fileName, chunkIndex) ==
    IF chunkIndex = 0 THEN GenerateShortId ELSE {FirstMatch(fileName)}

\* main.py:140  CHUNK_DIR / f"{file_id}_{chunkIndex}{file_ext}"
ChunkPath(file_id, chunkIndex, file_ext) ==
    CHUNK_DIR \o file_id \o <<"_">> \o Decimal(chunkIndex) \o file_ext

\* main.py:148-150  chunk_tracking[fileName][chunkIndex] = chunk_path
Track(fileName, chunkIndex, chunk_path) ==
    IF fileName \in Tracked
    THEN [i \in 1..Len(chunk_tracking) |->
            IF chunk_tracking[i].name = fileName
            THEN [chunk_tracking[i] EXCEPT !.chunks = DictSet(@, chunkIndex, chunk_path)]
            ELSE chunk_tracking[i]]
    ELSE Append(chunk_tracking,
                [name |-> fileName, chunks |-> DictSet(<<>>, chunkIndex, chunk_path)])

\* the bytes last accepted for chunkIndex of fileName
Remember(fileName, chunkIndex, body) ==
    Put(sent, fileName,
        Put(IF fileName \in DOMAIN sent THEN sent[fileName] ELSE <<>>, chunkIndex, body))

\* the extension test dropped
NeverRejected(fileName) == FALSE

\* main.py:131  file_ext not in ALLOWED_EXTENSIONS
TypeNotAllowed(fileName) == FileExt(fileName) \notin ALLOWED_EXTENSIONS

UploadChunk(fileName, chunkIndex, body) ==
    LET file_ext == FileExt(fileName)
    IN  IF TypeNotAllowed(fileName)
        THEN /\ last' = Response("upload_chunk", 400,
                                 "File type not allowed", None)
             /\ UNCHANGED <<chunk_tracking, file_metadata, chunkDir, uploadDir,
                            snapshot, clock, wake, sent, accepted, issued>>
        ELSE \E file_id \in ChunkFileIds(fileName, chunkIndex) :
                IF file_id = None
                THEN /\ last' = Response("upload_chunk", 400,
                                         "Upload session not found", None)
                     /\ UNCHANGED <<chunk_tracking, file_metadata, chunkDir, uploadDir,
                                    snapshot, clock, wake, sent, accepted, issued>>
                ELSE LET chunk_path == ChunkPath(file_id, chunkIndex, file_ext)
                     IN  /\ chunkDir' = Put(chunkDir, chunk_path,
                                            [bytes |-> body, mtime |-> clock])
                         /\ chunk_tracking' = Track(fileName, chunkIndex, chunk_path)
                         /\ sent' = Remember(fileName, chunkIndex, body)
                         /\ last' = Response("upload_chunk", 200,
                                             "", chunk_path)
                         /\ accepted' = accepted + 1
                         /\ UNCHANGED <<file_metadata, uploadDir, snapshot, clock, wake,
                                        issued>>

-----------------------------------------------------------------------------
(* main.py:155-199  complete_upload *)

\* the loop taken to have succeeded whatever it met
CombineAnyway(chunks, i, totalChunks, out, dir) == [ok |-> TRUE, out |-> out, dir |-> dir]

\* main.py:170-174  the loop over range(totalChunks) from index i on: out is what was
\* written to outfile, dir the chunk directory; ok is FALSE when chunks[i] raises
\* KeyError or chunk_path.open raises FileNotFoundError
RECURSIVE Combine(_, _, _, _, _)
Combine(chunks, i, totalChunks, out, dir) ==
    IF i >= totalChunks THEN [ok |-> TRUE, out |-> out, dir |-> dir]
    ELSE IF i \notin Indexes(chunks) THEN [ok |-> FALSE, out |-> out, dir |-> dir]
    ELSE LET chunk_path == ChunkAt(chunks, i)
         IN  IF chunk_path \notin DOMAIN dir THEN [ok |-> FALSE, out |-> out, dir |-> dir]
             ELSE Combine(chunks, i + 1, totalChunks, out \o dir[chunk_path].bytes,
                          Drop(dir, {chunk_path}))

\* the session left in the tracker
StillTracked(fileName) == chunk_tracking

\* main.py:179  del chunk_tracking[request.fileName]
Untrack(fileName) == SelectSeq(chunk_tracking, LAMBDA e : e.name # fileName)

\* main.py:189  the value of 'upload_time', from the first datetime.now() of the handler
UploadTime(t1, t2) == t1

\* main.py:190  the value of 'expiry_time', from the second datetime.now() of the handler
ExpiryTime(t1, t2) == t2 + RETENTION_HOURS

\* main.py:184-192  the record; mime_type and human_size, which the magic and humanize
\* libraries derive from the object, are left out
FileRecord(fileName, file_size, file_ext, t1, t2) ==
    [original_name |-> fileName, size |-> file_size,
     upload_time |-> UploadTime(t1, t2), expiry_time |-> ExpiryTime(t1, t2),
     extension |-> file_ext]

\* the values a second datetime.now() can return after a first one returned t
LaterReads(t) == {t} \cup { u \in {t + ClockStep} : u <= MaxClock }

\* the count test with < for !=
FewerChunks(chunks, totalChunks) == Len(chunks) < totalChunks

\* main.py:161  len(chunks) != request.totalChunks
MissingChunks(chunks, totalChunks) == Len(chunks) # totalChunks

\* t2 is what the datetime.now() of main.py:190 returns
CompleteUpload(fileName, totalChunks, t2) ==
    IF fileName \notin Tracked
    THEN /\ last' = Response("complete_upload", 400,
                             "No chunks found", None)
         /\ UNCHANGED <<chunk_tracking, file_metadata, chunkDir, uploadDir,
                        snapshot, clock, wake, sent, accepted, issued>>
    ELSE IF MissingChunks(Session(fileName), totalChunks)
    THEN /\ last' = Response("complete_upload", 400,
                             "Missing chunks", None)
         /\ UNCHANGED <<chunk_tracking, file_metadata, chunkDir, uploadDir,
                        snapshot, clock, wake, sent, accepted, issued>>
    ELSE \E file_id \in GenerateShortId :
            LET file_ext == FileExt(fileName)
                output_path == file_id \o file_ext
                done == Combine(Session(fileName), 0, totalChunks, <<>>, chunkDir)
            IN  /\ uploadDir' = Put(uploadDir, output_path, done.out)
                /\ chunkDir' = done.dir
                /\ IF ~done.ok
                   THEN /\ last' = Response("complete_upload", 500,
                                            "Failed to combine chunks", None)
                        /\ UNCHANGED <<chunk_tracking, file_metadata, snapshot, clock,
                                       wake, sent, accepted, issued>>
                   ELSE /\ chunk_tracking' = Untrack(fileName)
                        /\ sent' = Drop(sent, {fileName})
                        /\ file_metadata' =
                             Put(file_metadata, file_id,
                                 FileRecord(fileName, Len(done.out), file_ext, clock, t2))
                        /\ snapshot' = JsonDump(file_metadata')
                        /\ clock' = t2
                        /\ last' = Response("complete_upload", 200, "", file_id)
                        /\ issued' = Put(issued, file_id, file_metadata'[file_id].expiry_time)
                        /\ UNCHANGED <<wake, accepted>>

-----------------------------------------------------------------------------
(* main.py:202-226  get_file *)

\* get_file without the expiry test of main.py:210
GetFileStatusNoExpiry(base_file_id, now) ==
    IF base_file_id \notin DOMAIN file_metadata THEN 404
    ELSE IF (base_file_id \o file_metadata[base_file_id].extension) \notin DOMAIN uploadDir
    THEN 404
    ELSE 200

\* main.py:206-215  the status get_file answers with; 200 stands for both the
\* FileResponse and the preview page
GetFileStatus(base_file_id, now) ==
    IF base_file_id \notin DOMAIN file_metadata THEN 404
    ELSE IF now > file_metadata[base_file_id].expiry_time THEN 410
    ELSE IF (base_file_id \o file_metadata[base_file_id].extension) \notin DOMAIN uploadDir
    THEN 404
    ELSE 200

\* get_file removing what it finds expired
GetFileReaping(file_id) ==
    LET base_file_id == BaseFileId(file_id)
        status == GetFileStatus(base_file_id, clock)
    IN  /\ last' = Response("get_file", status, "", None)
        /\ IF status = 410
           THEN /\ file_metadata' = Drop(file_metadata, {base_file_id})
                /\ uploadDir' = Drop(uploadDir,
                                     {base_file_id \o file_metadata[base_file_id].extension})
                /\ snapshot' = JsonDump(file_metadata')
           ELSE UNCHANGED <<file_metadata, uploadDir, snapshot>>
        /\ UNCHANGED <<chunk_tracking, chunkDir, clock, wake, sent, accepted, issued>>

GetFile(file_id) ==
    LET base_file_id == BaseFileId(file_id)
        status == GetFileStatus(base_file_id, clock)
    IN  /\ last' = Response("get_file", status,
                            CASE status = 404 -> "File not found"
                              [] status = 410 -> "File has expired"
                              [] OTHER -> "",
                            None)
        /\ UNCHANGED <<chunk_tracking, file_metadata, chunkDir, uploadDir,
                       snapshot, clock, wake, sent, accepted, issued>>

-----------------------------------------------------------------------------
(* main.py:489-514  cleanup_expired_files: one cycle of the loop *)

\* the reaper comparing now with upload_time
ExpiredByUploadTime(metadata, now) ==
    { file_id \in DOMAIN metadata : now > metadata[file_id].upload_time }

\* main.py:493-496
ExpiredFiles(metadata, now) ==
    { file_id \in DOMAIN metadata : now > metadata[file_id].expiry_time }

\* the reaper unlinking no object
NoPaths(metadata, now) == {}

\* main.py:499-502  the objects the cycle unlinks
ExpiredPaths(metadata, now) ==
    { file_id \o metadata[file_id].extension : file_id \in ExpiredFiles(metadata, now) }

\* main.py:507-509  the chunk files the cycle unlinks
OldChunks(dir, now) ==
    { chunk_file \in DOMAIN dir : dir[chunk_file].mtime < now - CHUNK_MAX_AGE_HOURS }

CleanupCycle ==
    /\ clock >= wake
    /\ LET now == clock
       IN  /\ uploadDir' = Drop(uploadDir, ExpiredPaths(file_metadata, now))
           /\ file_metadata' = Drop(file_metadata, ExpiredFiles(file_metadata, now))
           /\ snapshot' = JsonDump(file_metadata')
           /\ chunkDir' = Drop(chunkDir, OldChunks(chunkDir, now))
           /\ wake' = clock + CLEANUP_INTERVAL_HOURS
           /\ last' = Response("cleanup", 0, "", None)
    /\ UNCHANGED <<chunk_tracking, clock, sent, accepted, issued>>

-----------------------------------------------------------------------------
(* The wall clock *)

Tick ==
    /\ clock + ClockStep <= MaxClock
    /\ clock' = clock + ClockStep
    /\ last' = Response("tick", 0, "", None)
    /\ UNCHANGED <<chunk_tracking, file_metadata, chunkDir, uploadDir, snapshot, wake,
                   sent, accepted, issued>>

-----------------------------------------------------------------------------
(* The system *)

\* main.py:40-43, 68-72  after startup: empty directories, no metadata file, the reaper
\* task created and about to run its first cycle
Init ==
    /\ chunk_tracking = <<>>
    /\ file_metadata = <<>>
    /\ chunkDir = <<>>
    /\ uploadDir = <<>>
    /\ snapshot = NoFile
    /\ clock = 0
    /\ wake = 0
    /\ sent = <<>>
    /\ accepted = 0
    /\ issued = <<>>
    /\ last = Response("startup", 0, "", None)
    /\ pc = "start"
    /\ cycle_now = 0
    /\ expired_files = <<>>
    /\ lifespan = "serving"

\* every reaper cycle as one step, with no I/O error
Next ==
    \/ /\ \E fileName \in FileNames, chunkIndex \in ChunkIndexes, body \in Bodies :
             accepted < MaxChunks /\ UploadChunk(fileName, chunkIndex, body)
       /\ UNCHANGED loop
    \/ /\ \E fileName \in FileNames, totalChunks \in TotalChunks, t2 \in LaterReads(clock) :
             CompleteUpload(fileName, totalChunks, t2)
       /\ UNCHANGED loop
    \/ /\ \E file_id \in FileIdInputs : GetFile(file_id)
       /\ UNCHANGED loop
    \/ CleanupCycle /\ UNCHANGED loop
    \/ Tick /\ UNCHANGED loop

Spec == Init /\ [][Next]_vars

-----------------------------------------------------------------------------
(* main.py:489-513  cleanup_expired_files, statement by statement *)

\* the sequences that hold each element of S once: the orders in which the for loop
\* of main.py:498 can meet the ids, the key order of file_metadata not being kept here
Orders(S) ==
    { order \in [1..Cardinality(S) -> S] : \A x \in S : \E i \in DOMAIN order : order[i] = x }

\* the reaper taking the cancellation as it takes an error
CancellationCaught == "except"

\* main.py:511-512  where a CancelledError raised in asyncio.sleep leaves the task:
\* `except Exception` does not catch it, the coroutine ends
OnCancelled == "ended"

\* handlers running wherever the reaper task is
AnyStatement == TRUE

\* main.py:511  the reaper task is suspended in its only await, asyncio.sleep
Suspended == pc = "sleep"

\* main.py:490-496  the loop head: now and expired_files, at the first cycle, after the
\* except clause, or when the sleep has ended without a cancellation
StartCycle ==
    /\ \/ pc = "start"
       \/ pc = "sleep" /\ clock >= wake /\ lifespan = "serving"
    /\ cycle_now' = clock
    /\ expired_files' \in Orders(ExpiredFiles(file_metadata, clock))
    /\ pc' = "for"
    /\ UNCHANGED <<chunk_tracking, file_metadata, chunkDir, uploadDir, snapshot, clock,
                   wake, sent, accepted, issued, last, lifespan>>

\* main.py:498-502  the object of the next expired id: unlinked when it exists, or
\* unlink raises; file_metadata[file_id] raises KeyError when the record is gone
UnlinkObject ==
    /\ pc = "for"
    /\ expired_files # <<>>
    /\ LET file_id == Head(expired_files)
       IN  IF file_id \notin DOMAIN file_metadata
           THEN pc' = "except" /\ UNCHANGED uploadDir
           ELSE LET file_path == file_id \o file_metadata[file_id].extension
                IN  \/ /\ uploadDir' = Drop(uploadDir, {file_path})
                       /\ pc' = "del"
                    \/ /\ file_path \in DOMAIN uploadDir
                       /\ pc' = "except"
                       /\ UNCHANGED uploadDir
    /\ UNCHANGED <<chunk_tracking, file_metadata, chunkDir, snapshot, clock, wake, sent,
                   accepted, issued, last, cycle_now, expired_files, lifespan>>

\* main.py:503  del file_metadata[file_id]
DeleteRecord ==
    /\ pc = "del"
    /\ IF Head(expired_files) \in DOMAIN file_metadata
       THEN /\ file_metadata' = Drop(file_metadata, {Head(expired_files)})
            /\ expired_files' = Tail(expired_files)
            /\ pc' = "for"
       ELSE /\ pc' = "except"
            /\ UNCHANGED <<file_metadata, expired_files>>
    /\ UNCHANGED <<chunk_tracking, chunkDir, uploadDir, snapshot, clock, wake, sent,
                   accepted, issued, last, cycle_now, lifespan>>

\* main.py:505  save_metadata() after the for loop
SaveAfterBatch ==
    /\ pc = "for"
    /\ expired_files = <<>>
    /\ snapshot' = JsonDump(file_metadata)
    /\ pc' = "sweep"
    /\ UNCHANGED <<chunk_tracking, file_metadata, chunkDir, uploadDir, clock, wake, sent,
                   accepted, issued, last, cycle_now, expired_files, lifespan>>

\* main.py:507-511  the sweep of CHUNK_DIR and the start of the sleep, or an unlink of
\* the sweep raises after some of the old chunk files were removed
SweepChunks ==
    /\ pc = "sweep"
    /\ \/ /\ chunkDir' = Drop(chunkDir, OldChunks(chunkDir, cycle_now))
          /\ wake' = clock + CLEANUP_INTERVAL_HOURS
          /\ last' = Response("cleanup", 0, "", None)
          /\ pc' = "sleep"
       \/ /\ \E gone \in SUBSET OldChunks(chunkDir, cycle_now) :
                /\ gone # OldChunks(chunkDir, cycle_now)
                /\ chunkDir' = Drop(chunkDir, gone)
          /\ pc' = "except"
          /\ UNCHANGED <<wake, last>>
    /\ UNCHANGED <<chunk_tracking, file_metadata, uploadDir, snapshot, clock, sent,
                   accepted, issued, cycle_now, expired_files, lifespan>>

\* main.py:512-513  the except clause: print, and back to the loop head
Except ==
    /\ pc = "except"
    /\ pc' = "start"
    /\ UNCHANGED <<chunk_tracking, file_metadata, chunkDir, uploadDir, snapshot, clock,
                   wake, sent, accepted, issued, last, cycle_now, expired_files, lifespan>>

\* main.py:511  asyncio.sleep raises CancelledError in the cancelled task
Cancelled ==
    /\ pc = "sleep"
    /\ lifespan = "awaiting"
    /\ pc' = OnCancelled
    /\ UNCHANGED <<chunk_tracking, file_metadata, chunkDir, uploadDir, snapshot, clock,
                   wake, sent, accepted, issued, last, cycle_now, expired_files, lifespan>>

-----------------------------------------------------------------------------
(* main.py:40-48  lifespan, after the yield *)

\* main.py:46-47  save_metadata() and cleanup_task.cancel(), with no await in between
Shutdown ==
    /\ lifespan = "serving"
    /\ Suspended
    /\ snapshot' = JsonDump(file_metadata)
    /\ lifespan' = "awaiting"
    /\ UNCHANGED <<chunk_tracking, file_metadata, chunkDir, uploadDir, clock, wake, sent,
                   accepted, issued, last, pc, cycle_now, expired_files>>

\* main.py:48  await cleanup_task returns control once the task has ended
Exit ==
    /\ lifespan = "awaiting"
    /\ pc = "ended"
    /\ lifespan' = "exited"
    /\ UNCHANGED <<chunk_tracking, file_metadata, chunkDir, uploadDir, snapshot, clock,
                   wake, sent, accepted, issued, last, pc, cycle_now, expired_files>>

-----------------------------------------------------------------------------
(* The system with the reaper task and lifespan step by step *)

\* main.py:44  requests are handled between the yield of lifespan and the shutdown,
\* by the event loop, which runs a handler only when the reaper task is suspended
Serving == lifespan = "serving" /\ Suspended

NextLoop ==
    \/ /\ Serving
       /\ \E fileName \in FileNames, chunkIndex \in ChunkIndexes, body \in Bodies :
             accepted < MaxChunks /\ UploadChunk(fileName, chunkIndex, body)
       /\ UNCHANGED loop
    \/ /\ Serving
       /\ \E fileName \in FileNames, totalChunks \in TotalChunks, t2 \in LaterReads(clock) :
             CompleteUpload(fileName, totalChunks, t2)
       /\ UNCHANGED loop
    \/ /\ Serving
       /\ \E file_id \in FileIdInputs : GetFile(file_id)
       /\ UNCHANGED loop
    \/ StartCycle
    \/ UnlinkObject
    \/ DeleteRecord
    \/ SaveAfterBatch
    \/ SweepChunks
    \/ Except
    \/ Cancelled
    \/ Shutdown
    \/ Exit
    \/ pc \in {"sleep", "ended"} /\ Tick /\ UNCHANGED loop

SpecLoop == Init /\ [][NextLoop]_vars

-----------------------------------------------------------------------------
(* Notions the properties use *)

\* the file names upload_chunk lets through its extension test
AllowedNames == { fileName \in FileNames : FileExt(fileName) \in ALLOWED_EXTENSIONS }

\* the chunk files the session of fileName refers to
SessionPaths(fileName) ==
    IF fileName \in Tracked
    THEN { Session(fileName)[i].path : i \in 1..Len(Session(fileName)) }
    ELSE {}

\* the chunk indexes tracked for fileName
SessionIndexes(fileName) ==
    IF fileName \in Tracked THEN Indexes(Session(fileName)) ELSE {}

\* fileName is the only upload there is: no other session is tracked and every chunk
\* file is one of this session's
OnlyUpload(fileName) ==
    /\ Tracked \subseteq {fileName}
    /\ DOMAIN chunkDir = SessionPaths(fileName)

\* the bytes last accepted for the indexes i..n-1, in ascending order
RECURSIVE SentBytes(_, _, _)
SentBytes(bodies, i, n) ==
    IF i >= n THEN <<>> ELSE bodies[i] \o SentBytes(bodies, i + 1, n)

-----------------------------------------------------------------------------
(* C1 *)

\* C1: the chunks of one upload are accepted in any arrival order. While fileName is
\* the only upload, every upload_chunk of an index not yet submitted succeeds and
\* lands in the session of fileName, and once the indexes 0..N-1 are there
\* complete_upload(fileName, N) returns a fileId.
C1_AnyOrderAccepted ==
    [][ /\ \A fileName \in AllowedNames, chunkIndex \in ChunkIndexes, body \in Bodies :
            ( /\ OnlyUpload(fileName)
              /\ chunkIndex \notin SessionIndexes(fileName)
              /\ UploadChunk(fileName, chunkIndex, body) )
            => ( /\ last'.status = 200
                 /\ Tracked' = {fileName}
                 /\ SessionIndexes(fileName)' = SessionIndexes(fileName) \cup {chunkIndex} )
        /\ \A fileName \in AllowedNames, totalChunks \in TotalChunks \ {0},
              t2 \in LaterReads(clock) :
            ( /\ OnlyUpload(fileName)
              /\ SessionIndexes(fileName) = 0..(totalChunks - 1)
              /\ CompleteUpload(fileName, totalChunks, t2) )
            => ( last'.status = 200 /\ last'.ret \in ShortIds )
      ]_vars

-----------------------------------------------------------------------------
(* C2 *)

\* C2: whenever complete_upload(fileName, N) succeeds, the stored object holds the
\* bytes last accepted for the indexes 0..N-1 of that session, in ascending order.
C2_AssembledInOrder ==
    [][ \A fileName \in AllowedNames, totalChunks \in TotalChunks, t2 \in LaterReads(clock) :
            ( /\ fileName \in Tracked
              /\ CompleteUpload(fileName, totalChunks, t2)
              /\ last'.status = 200 )
            => uploadDir'[last'.ret \o FileExt(fileName)]
                  = SentBytes(sent[fileName], 0, totalChunks)
      ]_vars

-----------------------------------------------------------------------------
(* C3 *)

\* C3: the id complete_upload gets from generate_short_id has no backing object
\* {id}{extension} in the object root and no live FileRecord, so a successful
\* complete_upload never replaces an earlier upload's record or object.
C3_FreshId ==
    [][ \A fileName \in AllowedNames, totalChunks \in TotalChunks, t2 \in LaterReads(clock) :
            ( CompleteUpload(fileName, totalChunks, t2) /\ last'.status = 200 )
            => ( /\ last'.ret \notin DOMAIN file_metadata
                 /\ \A ext \in ALLOWED_EXTENSIONS : (last'.ret \o ext) \notin DOMAIN uploadDir )
      ]_vars

-----------------------------------------------------------------------------
(* C4 *)

\* C4: between operations, an object {id}{extension} exists in the object root if and
\* only if the metadata store holds a record for id with that extension.
C4_ObjectIffRecord ==
    \A id \in ShortIds, ext \in ALLOWED_EXTENSIONS :
        ((id \o ext) \in DOMAIN uploadDir)
            <=> (id \in DOMAIN file_metadata /\ file_metadata[id].extension = ext)

-----------------------------------------------------------------------------
(* C5 *)

\* C5: every record of the metadata store has expiry_time = upload_time + 24 hours.
C5_ExpiryIsUploadPlus24h ==
    \A id \in DOMAIN file_metadata :
        file_metadata[id].expiry_time = file_metadata[id].upload_time + RETENTION_HOURS

-----------------------------------------------------------------------------
(* C6 *)

\* C6 as stated: for every id a successful complete_upload issued with expiry time E,
\* get_file(id) at now > E answers 410, whatever reaper cycles have run.
C6_ExpiredForEveryIssuedId ==
    [][ \A file_id \in FileIdInputs :
            ( /\ BaseFileId(file_id) \in DOMAIN issued
              /\ clock > issued[BaseFileId(file_id)]
              /\ GetFile(file_id) )
            => last'.status = 410
      ]_vars

\* C6 as amended: get_file(id) at now > E answers 410 as long as the record of id,
\* with expiry time E, is in the metadata store; once a reaper cycle has removed the
\* record it answers 404.
C6_ExpiredWhileRecorded ==
    [][ \A file_id \in FileIdInputs :
            GetFile(file_id)
            => LET id == BaseFileId(file_id)
               IN  /\ (id \in DOMAIN file_metadata /\ clock > file_metadata[id].expiry_time)
                        => last'.status = 410
                   /\ id \notin DOMAIN file_metadata => last'.status = 404
      ]_vars

\* get_file has answered 410 for a record the reaper has not removed yet
C6_Witness ==
    /\ last.op = "get_file"
    /\ last.status = 410
    /\ \E id \in DOMAIN file_metadata : clock > file_metadata[id].expiry_time

-----------------------------------------------------------------------------
(* C7 *)

\* C7: a record and its object are never removed before expiry: only a reaper cycle
\* removes them, and only when expiry_time < now; and get_file(id) at now <= expiry_time
\* succeeds, whatever reaper cycles have run.
C7_RetainedUntilExpiry ==
    [][ /\ \A id \in DOMAIN file_metadata :
            ( \/ id \notin DOMAIN file_metadata'
              \/ (id \o file_metadata[id].extension) \notin DOMAIN uploadDir' )
            => ( last'.op = "cleanup" /\ file_metadata[id].expiry_time < clock )
        /\ \A file_id \in FileIdInputs :
            ( /\ GetFile(file_id)
              /\ BaseFileId(file_id) \in DOMAIN file_metadata
              /\ clock <= file_metadata[BaseFileId(file_id)].expiry_time )
            => last'.status = 200
      ]_vars

\* get_file has succeeded for a record created at an earlier hour, after a reaper
\* cycle ran at this hour
C7_Witness ==
    /\ last.op = "get_file"
    /\ last.status = 200
    /\ wake > clock
    /\ \E id \in ShortIds :
          /\ DOMAIN file_metadata = {id}
          /\ file_metadata[id].upload_time < clock
          /\ clock <= file_metadata[id].expiry_time

-----------------------------------------------------------------------------
(* C8 *)

\* what a reaper cycle at hour now would still remove
CycleWouldChange(metadata, objects, chunks, snap, now) ==
    \/ Drop(metadata, ExpiredFiles(metadata, now)) # metadata
    \/ Drop(objects, ExpiredPaths(metadata, now)) # objects
    \/ Drop(chunks, OldChunks(chunks, now)) # chunks
    \/ JsonDump(Drop(metadata, ExpiredFiles(metadata, now))) # snap

\* C8: after a reaper cycle that starts later than a record's expiry_time, the object
\* is gone and neither the metadata store nor the snapshot holds the record; a second
\* cycle right after it changes neither the store, the snapshot nor the directories.
C8_Reclaimed ==
    [][ CleanupCycle
        => /\ \A id \in DOMAIN file_metadata :
                file_metadata[id].expiry_time < clock
                => /\ id \notin DOMAIN file_metadata'
                   /\ id \notin DOMAIN snapshot'
                   /\ (id \o file_metadata[id].extension) \notin DOMAIN uploadDir'
           /\ ~CycleWouldChange(file_metadata', uploadDir', chunkDir', snapshot', clock')
      ]_vars

\* a reaper cycle has removed the record of an id whose expiry time has passed
C8_Witness ==
    /\ last.op = "cleanup"
    /\ \E id \in DOMAIN issued :
          /\ issued[id] < clock
          /\ id \notin DOMAIN file_metadata
          /\ id \notin DOMAIN snapshot
          /\ \A ext \in ALLOWED_EXTENSIONS : (id \o ext) \notin DOMAIN uploadDir

-----------------------------------------------------------------------------
(* C9 *)

\* C9: upload_chunk with a file name whose extension is not in the whitelist answers
\* 400 "File type not allowed" for every chunk index and every state of the tracker,
\* and leaves the tracker, the chunk directory, the metadata store, the snapshot and
\* the object directory unchanged.
C9_ExtensionGate ==
    [][ \A fileName \in FileNames, chunkIndex \in ChunkIndexes, body \in Bodies :
            ( /\ Lower(Suffix(fileName)) \notin ALLOWED_EXTENSIONS
              /\ UploadChunk(fileName, chunkIndex, body) )
            => ( /\ last'.status = 400
                 /\ last'.detail = "File type not allowed"
                 /\ UNCHANGED <<chunk_tracking, chunkDir, file_metadata, snapshot, uploadDir>> )
      ]_vars

\* a chunk with a disallowed extension has been rejected while a session was tracked
C9_Witness ==
    /\ last.op = "upload_chunk"
    /\ last.detail = "File type not allowed"
    /\ chunk_tracking # <<>>

-----------------------------------------------------------------------------
(* C10 *)

\* C10: complete_upload(fileName, totalChunks) on a tracked session whose number of
\* stored chunk indexes differs from totalChunks answers 400 "Missing chunks" and
\* leaves the session, the chunk files, the object directory, the metadata store and
\* the snapshot unchanged.
C10_MissingChunks ==
    [][ \A fileName \in FileNames, totalChunks \in TotalChunks, t2 \in LaterReads(clock) :
            ( /\ fileName \in Tracked
              /\ Cardinality(SessionIndexes(fileName)) # totalChunks
              /\ CompleteUpload(fileName, totalChunks, t2) )
            => ( /\ last'.status = 400
                 /\ last'.detail = "Missing chunks"
                 /\ UNCHANGED <<chunk_tracking, chunkDir, file_metadata, snapshot, uploadDir>> )
      ]_vars

\* complete_upload has answered "Missing chunks" and the session is still tracked
C10_Witness ==
    /\ last.op = "complete_upload"
    /\ last.detail = "Missing chunks"
    /\ chunk_tracking # <<>>

-----------------------------------------------------------------------------
(* C11 *)

\* C11: save_metadata followed by load_metadata gives back the metadata store: the
\* same ids, identical records with upload_time and expiry_time as they were, and so
\* the same expired records at every hour.
C11_RoundTrip ==
    LET restored == LoadMetadata(JsonDump(file_metadata))
    IN  /\ restored = file_metadata
        /\ \A t \in 0..(MaxClock + RETENTION_HOURS + 1) :
              ExpiredFiles(restored, t) = ExpiredFiles(file_metadata, t)

\* the snapshot holds a record whose upload_time is not midnight and whose expiry_time
\* is not a whole number of days, and load_metadata restores it
C11_Witness ==
    \E id \in DOMAIN file_metadata :
        /\ file_metadata[id].upload_time % 24 # 0
        /\ file_metadata[id].expiry_time % 24 # 0
        /\ snapshot # NoFile
        /\ id \in DOMAIN snapshot
        /\ LoadMetadata(snapshot)[id] = file_metadata[id]

-----------------------------------------------------------------------------
(* C12 *)

\* no handler and no reaper cycle is in progress: the reaper task is at its loop head,
\* in its sleep, or has ended
Quiescent == pc \in {"start", "sleep", "ended"}

\* C12: whenever no handler and no reaper cycle is in progress, the durable snapshot
\* restores to the in-memory store, also after a cycle that ended through its except
\* clause after having deleted records.
C12_WriteThrough ==
    Quiescent => LoadMetadata(snapshot) = file_metadata

-----------------------------------------------------------------------------
(* C13 *)

\* a step of a request handler
HandlerStep ==
    /\ UNCHANGED loop
    /\ \/ \E fileName \in FileNames, chunkIndex \in ChunkIndexes, body \in Bodies :
             UploadChunk(fileName, chunkIndex, body)
       \/ \E fileName \in FileNames, totalChunks \in TotalChunks, t2 \in LaterReads(clock) :
             CompleteUpload(fileName, totalChunks, t2)
       \/ \E file_id \in FileIdInputs : GetFile(file_id)

\* the object of an expired id has been unlinked and its record is still in the store
MidDeletion ==
    /\ pc = "del"
    /\ Head(expired_files) \in DOMAIN file_metadata

-----------------------------------------------------------------------------
(* C14 *)

-----------------------------------------------------------------------------
(* C15 *)

-----------------------------------------------------------------------------
(* C16 *)

\* C16: an upload that starts (chunk 0) while an upload of the same file name is in
\* flight gets a session of its own: the session of the earlier upload stays in the
\* tracker with the chunk set it had, and a second session is tracked.
C16_SessionsApart ==
    [][ \A fileName \in AllowedNames, body \in Bodies :
            ( /\ fileName \in Tracked
              /\ UploadChunk(fileName, 0, body)
              /\ last'.status = 200 )
            => ( /\ Len(chunk_tracking') = Len(chunk_tracking) + 1
                 /\ \E i \in 1..Len(chunk_tracking') :
                       chunk_tracking'[i].chunks = Session(fileName) )
      ]_vars

-----------------------------------------------------------------------------
(* C17 *)

\* C17: a successful complete_upload removes the session from the tracker and every
\* chunk file the session referred to; complete_upload for a file name that is not
\* tracked, as after a completion, answers 400 "No chunks found" and changes nothing.
C17_CompletedOnce ==
    [][ \A fileName \in FileNames, totalChunks \in TotalChunks, t2 \in LaterReads(clock) :
            CompleteUpload(fileName, totalChunks, t2)
            => ( /\ (fileName \in Tracked /\ last'.status = 200)
                      => ( /\ fileName \notin Tracked'
                           /\ SessionPaths(fileName) \cap DOMAIN chunkDir' = {} )
                 /\ fileName \notin Tracked
                      => ( /\ last'.status = 400
                           /\ last'.detail = "No chunks found"
                           /\ UNCHANGED <<chunk_tracking, chunkDir, file_metadata,
                                          snapshot, uploadDir>> ) )
      ]_vars

\* complete_upload has answered "No chunks found" after an upload was completed
C17_Witness ==
    /\ last.op = "complete_upload"
    /\ last.detail = "No chunks found"
    /\ file_metadata # <<>>
    /\ chunk_tracking = <<>>

-----------------------------------------------------------------------------
(* C18 *)

\* C18: every reaper cycle, whether its record phase raised or not, ends with every
\* chunk file modified more than 24 hours before the cycle's now deleted, and the
\* reaper deletes no chunk file modified later than that.
C18_SweepEveryCycle ==
    [][ /\ ( \/ pc = "sweep" /\ pc' = "sleep"
             \/ pc \in {"for", "del"} /\ pc' = "except" )
           => OldChunks(chunkDir', cycle_now') = {}
        /\ pc' # pc
           => \A chunk_file \in DOMAIN chunkDir \ DOMAIN chunkDir' :
                 chunkDir[chunk_file].mtime < cycle_now - CHUNK_MAX_AGE_HOURS
      ]_vars

-----------------------------------------------------------------------------
(* C19 *)

\* C19: get_file, whatever it answers, leaves the metadata store, the snapshot, the
\* object directory, the chunk tracker and the chunk directory unchanged.
C19_GetFileReadOnly ==
    [][ \A file_id \in FileIdInputs :
            GetFile(file_id)
            => UNCHANGED <<file_metadata, snapshot, uploadDir, chunk_tracking, chunkDir>>
      ]_vars

\* get_file has answered 410 and both the record and its object are still there
C19_Witness ==
    /\ last.op = "get_file"
    /\ last.status = 410
    /\ \E id \in DOMAIN file_metadata :
          /\ clock > file_metadata[id].expiry_time
          /\ (id \o file_metadata[id].extension) \in DOMAIN uploadDir
          /\ id \in DOMAIN snapshot

-----------------------------------------------------------------------------
(* C20 *)

\* complete_upload(fileName, totalChunks) has to fail: the session is not tracked, the
\* chunk count differs, an index of 0..totalChunks-1 is absent, or a chunk file is gone
MustFail(fileName, totalChunks) ==
    \/ fileName \notin Tracked
    \/ Len(Session(fileName)) # totalChunks
    \/ \E i \in 0..(totalChunks - 1) :
          \/ i \notin SessionIndexes(fileName)
          \/ ChunkAt(Session(fileName), i) \notin DOMAIN chunkDir

=============================================================================
